---- MODULE Spec2Model ----
(***************************************************************************)
(* A model of spread's Linode provider (src/spread/linode.go): Allocate    *)
(* with its setup/rollback workflow, Discard, the boot-job wait, and the   *)
(* lock-guarded distribution/kernel cache.  Every network call (l.do) is   *)
(* one step of the calling goroutine; its response is chosen by the        *)
(* provider among the shapes the decoder accepts.                          *)
(***************************************************************************)
EXTENDS Integers, Sequences, FiniteSets, TLC

-----------------------------------------------------------------------------
(* Bounds of the model *)

\* Longest account listing the provider returns.
MaxServers == 2
\* Goroutines calling distro() concurrently (catalog specification).
NumResolvers == 2
\* Longest distribution list the provider serves (resolve specification).
MaxDistros == 2
\* Longest time, in ticker intervals, one jobInfo call may block.
MaxPollTicks == 1
\* How many ticker intervals past the deadline the clock is followed.
MaxOver == 1

-----------------------------------------------------------------------------
(* Program constants *)

linodeBeingCreated == -1
linodeBrandNew == 0
linodeRunning == 1
linodePoweredOff == 2

\* time.After(1 * time.Minute), in seconds.
waitTimeout == 60
\* time.NewTicker(5 * time.Second), in seconds.
retryInterval == 5
\* for retry := 0; retry < 3; retry++
cacheAttempts == 3

\* The deadline in ticker intervals, and the last instant the model follows.
Deadline == waitTimeout \div retryInterval
MaxTime == Deadline + MaxOver

-----------------------------------------------------------------------------
(* Text.  A provider message is a sequence of characters, a label a        *)
(* sequence of whitespace-separated words (strings.Fields), an error a     *)
(* sequence of strings: the contexts fmt.Errorf wraps around a message.    *)

nil == <<>>

\* strings.ToLower on the characters and words the model uses.
ToLower(s) ==
    CASE s = "B" -> "b"
      [] s = "D" -> "d"
      [] s = "Ubuntu" -> "ubuntu"
      [] s = "Arch" -> "arch"
      [] s = "Linux" -> "linux"
      [] s = "LTS" -> "lts"
      [] OTHER -> s

\* strings.ToLower(string(msg[0])) + msg[1:]; msg is not empty.
LowerFirst(msg) == [msg EXCEPT ![1] = ToLower(@)]

\* fmt.Errorf("<context>: %v", err); %v prints a nil error as <nil>.
Errorf(context, err) == <<context>> \o (IF err = nil THEN <<"<nil>">> ELSE err)

MsgBad == <<"B", "a", "d">>
MsgDown == <<"d", "o", "w", "n">>

\* ERRORARRAY values of a response envelope.  Messages are never empty: the
\* provider always words its errors.
ErrorArrays ==
    { <<>>,
      <<[Code |-> 4, Message |-> MsgBad]>>,
      <<[Code |-> 5, Message |-> MsgDown], [Code |-> 4, Message |-> MsgBad]>> }

FailedArrays == ErrorArrays \ {<<>>}

\* linodeResult.err: the first error of the array, first letter lower-cased.
ResultErr(errors) ==
    IF errors = <<>> THEN nil ELSE LowerFirst(errors[1].Message)

\* The errors l.do itself returns: the request failed, the body could not be
\* read, the body could not be decoded.
DoErrs ==
    { <<"cannot perform Linode request">>,
      <<"cannot read Linode response">>,
      <<"cannot decode Linode response">> }

\* err := l.do(...); if err == nil { err = result.err() }
DoThenResultErr(doErr, errors) ==
    IF doErr # nil THEN doErr ELSE ResultErr(errors)

\* The envelopes of a call that carries no data the caller reads.
Envelopes ==
    { [doErr |-> e, errors |-> <<>>] : e \in DoErrs \cup {nil} }
    \cup { [doErr |-> nil, errors |-> a] : a \in FailedArrays }

\* One envelope of each kind, for the requests that are repeated (the
\* catalog fetches, the job polls): no error, an error of l.do, an ERRORARRAY.
SomeEnvelopes ==
    { [doErr |-> nil, errors |-> <<>>],
      [doErr |-> <<"cannot perform Linode request">>, errors |-> <<>>],
      [doErr |-> nil, errors |-> <<[Code |-> 4, Message |-> MsgBad]>>] }

-----------------------------------------------------------------------------
(* The catalog: distributions and kernels *)

NoName == <<>>

Distro(id, label, is64) ==
    [ID |-> id, Label |-> label, Is64Bit |-> is64, Name |-> NoName, KernelID |-> 0]

Ubuntu64 == Distro(1, <<"Ubuntu", "16.04", "LTS">>, 1)
Ubuntu32 == Distro(2, <<"Ubuntu", "16.04", "LTS">>, 0)
Ubuntu32b == Distro(3, <<"Ubuntu", "16.04">>, 0)
Arch64 == Distro(4, <<"Arch", "Linux", "2016.01">>, 1)

DistroPool == {Ubuntu64, Ubuntu32, Ubuntu32b, Arch64}

Kernel(id, label) == [ID |-> id, Label |-> label]

Latest64 == Kernel(7, <<"Latest", "64", "bit", "(4.5.0)">>)
Latest32 == Kernel(3, <<"Latest", "32", "bit", "(4.5.0)">>)
Older64 == Kernel(5, <<"4.4.0", "64", "bit">>)

KernelLists ==
    { <<>>,
      <<Latest64>>,
      <<Latest32, Older64>>,
      <<Latest64, Latest32>>,
      <<Older64, Latest32, Latest64>> }

\* The systems an image identifier names (image.SystemID()).
Ubuntu == <<"ubuntu", "16.04">>
Arch == <<"arch", "2016.01">>
Fedora == <<"fedora", "24">>

Systems == {Ubuntu, Arch, Fedora}

\* Sequences over S of length at most n.
SeqsUpTo(S, n) == UNION { [1..k -> S] : k \in 0..n }

\* strings.HasPrefix on labels, word by word.
HasPrefix(label, prefix) ==
    /\ Len(label) >= Len(prefix)
    /\ SubSeq(label, 1, Len(prefix)) = prefix

\* The loop over l.kernelsCache: the ID of the last kernel whose label has
\* the prefix, -1 when there is none.
RECURSIVE latestKernel(_, _, _, _)
latestKernel(kernels, prefix, i, latest) ==
    IF i > Len(kernels) THEN latest
    ELSE latestKernel(kernels, prefix, i + 1,
                      IF HasPrefix(kernels[i].Label, prefix)
                      THEN kernels[i].ID ELSE latest)

latest64Of(kernels) == latestKernel(kernels, <<"Latest", "64", "bit">>, 1, -1)
latest32Of(kernels) == latestKernel(kernels, <<"Latest", "32", "bit">>, 1, -1)

\* label := strings.Fields(strings.ToLower(distro.Label)); every label of
\* the pool has two words or more.
distroName(label) ==
    LET words == [i \in 1..Len(label) |-> ToLower(label[i])]
    IN  IF Len(words) > 2 /\ words[2] = "linux"
        THEN <<words[1], words[3]>>
        ELSE <<words[1], words[2]>>

\* The loop over l.distrosCache that back-fills KernelID and Name.
backfill(distros, l32, l64) ==
    [i \in 1..Len(distros) |->
        [distros[i] EXCEPT
            !.KernelID = IF distros[i].Is64Bit = 1 THEN l64 ELSE l32,
            !.Name = distroName(distros[i].Label)]]

NoDistro == [ID |-> 0, Label |-> <<>>, Is64Bit |-> 0, Name |-> NoName, KernelID |-> 0]

\* The lookup loop as it would be if it kept the first entry of the name
\* when none is 64-bit.
RECURSIVE distroLoopFirst(_, _, _, _)
distroLoopFirst(cache, system, i, best) ==
    IF i > Len(cache) THEN best
    ELSE IF cache[i].Name # system THEN distroLoopFirst(cache, system, i + 1, best)
    ELSE IF cache[i].Is64Bit = 1 THEN cache[i]
    ELSE distroLoopFirst(cache, system, i + 1,
                         IF best = NoDistro THEN cache[i] ELSE best)

\* The lookup loop of distro(): the first 64-bit entry of that name, else the
\* last entry of that name, else nil.
RECURSIVE distroLoop(_, _, _, _)
distroLoop(cache, system, i, best) ==
    IF i > Len(cache) THEN best
    ELSE IF cache[i].Name # system THEN distroLoop(cache, system, i + 1, best)
    ELSE IF cache[i].Is64Bit = 1 THEN cache[i]
    ELSE distroLoop(cache, system, i + 1, cache[i])

ErrNoSystem == <<"cannot find system %!s(MISSING) in Linode">>
ErrNoKernel == <<"cannot find latest Linode kernel">>

\* The catalogs the provider serves in the specifications below.
CatalogDistroLists == { <<Ubuntu32, Ubuntu64>> }

CatalogKernelLists == { <<Latest64>>, <<Latest32, Latest64>> }

-----------------------------------------------------------------------------
(* State *)

VARIABLES
    servers,        \* the provider: the account's machines, in listing order
    ipList,         \* the provider: the addresses of a machine, in listing order
    provDistros,    \* the provider: avail.distributions
    provKernels,    \* the provider: avail.kernels
    disks,          \* the provider: the disks that exist
    configs,        \* the provider: the configurations that exist
    nextID,         \* the provider: the next disk/configuration/job ID
    distrosLock,    \* linode.distrosLock: the goroutine holding it, 0 when free
    distrosDone,    \* linode.distrosDone
    distrosCache,   \* linode.distrosCache
    kernelsCache,   \* linode.kernelsCache
    proc            \* the goroutines: position, locals and the calls issued

provider == <<servers, ipList, provDistros, provKernels, disks, configs, nextID>>
cache == <<distrosLock, distrosDone, distrosCache, kernelsCache>>
vars == <<servers, ipList, provDistros, provKernels, disks, configs, nextID,
          distrosLock, distrosDone, distrosCache, kernelsCache, proc>>

\* The labels of the account's machines: machine i has ID 10 + i.
Labels == <<"spread-1", "spread-2", "spread-3", "spread-4">>

\* A machine as linode.list decodes it: only ID, label and status are set.
Server(id, status) ==
    [ID |-> id, Label |-> IF id > 10 THEN Labels[id - 10] ELSE "",
     Status |-> status, Addr |-> "", Img |-> <<>>,
     Config |-> 0, Root |-> 0, Swap |-> 0]

NoServer == Server(0, 0)

NoJob == [JobID |-> 0, HostFinish |-> "", HostSuccess |-> 0, HostMessage |-> <<>>]

\* What removeDisks decoded for its batch: l.do's error and the results.
NoRemoval == [doErr |-> nil, results |-> <<>>]

\* A goroutine about to run operation op for the given image and machine.
\* removal is what its latest removeDisks call decoded, data what ReuseData
\* returned to it, reused the machine Reuse made of data, batchErr the error
\* l.do returned to its createDisk call, fetchErr the err of the latest
\* fetch of cacheDistros (the variable err of its loops).
Start(op, image, server, pc) ==
    [op |-> op, image |-> image, pc |-> pc, after |-> "done", retry |-> 0,
     distro |-> NoDistro, err |-> nil, fatal |-> FALSE, listed |-> <<>>,
     server |-> server,
     results |-> <<>>, root |-> 0, jobID |-> 0,
     now |-> 0, tick |-> FALSE, infoErr |-> nil, polls |-> 0, job |-> NoJob,
     errs |-> <<>>, fetches |-> <<>>, calls |-> <<>>, removal |-> NoRemoval,
     data |-> <<>>, reused |-> NoServer, batchErr |-> nil, fetchErr |-> nil]

\* One call of the log: the API action, the machine (LinodeID), the disk or
\* configuration IDs it names (for linode.disk.create the DiskIDs the caller
\* took from the results), and whether the caller took it as a success.
Call(action, id, args, ok) == [action |-> action, id |-> id, args |-> args, ok |-> ok]

Logged(p, action, id, args, ok) == Append(proc[p].calls, Call(action, id, args, ok))

\* The same for the catalog requests (avail.distributions, avail.kernels).
Fetched(p, action, ok) == Append(proc[p].fetches, Call(action, 0, <<>>, ok))

-----------------------------------------------------------------------------
(* distro(): the lock-guarded catalog cache *)

\* defer l.distrosLock.Unlock() and the return to the caller.
distroReturn(p, entry, err, fetches, fetchErr) ==
    /\ distrosLock' = 0
    /\ proc' = [proc EXCEPT ![p] = [@ EXCEPT !.pc = proc[p].after, !.distro = entry,
                                             !.err = err, !.retry = 0,
                                             !.fetches = fetches,
                                             !.fetchErr = fetchErr]]

\* DistroEnter as it would be if a cache that holds distributions passed for
\* a populated one.
DistroEnterOnFilledCache(p) ==
    /\ proc[p].pc = "distro"
    /\ distrosLock = 0
    /\ distrosLock' = p
    /\ proc' = [proc EXCEPT ![p] = [@ EXCEPT
                    !.pc = IF distrosDone \/ distrosCache # <<>>
                           THEN "distroLookup" ELSE "cacheDistros",
                    !.retry = 0, !.fetches = <<>>]]
    /\ UNCHANGED <<provider, distrosDone, distrosCache, kernelsCache>>

\* DistroEnter as it would be if distrosDone were not consulted: every call
\* populates the cache again.
DistroEnterAlwaysPopulates(p) ==
    /\ proc[p].pc = "distro"
    /\ distrosLock = 0
    /\ distrosLock' = p
    /\ proc' = [proc EXCEPT ![p] = [@ EXCEPT !.pc = "cacheDistros", !.retry = 0,
                                             !.fetches = <<>>]]
    /\ UNCHANGED <<provider, distrosDone, distrosCache, kernelsCache>>

\* DistroEnter as it would be without l.distrosLock.Lock(): the caller goes
\* on whoever holds the lock.
DistroEnterWithoutLock(p) ==
    /\ proc[p].pc = "distro"
    /\ distrosLock' = p
    /\ proc' = [proc EXCEPT ![p] = [@ EXCEPT
                    !.pc = IF distrosDone THEN "distroLookup" ELSE "cacheDistros",
                    !.retry = 0, !.fetches = <<>>]]
    /\ UNCHANGED <<provider, distrosDone, distrosCache, kernelsCache>>

\* l.distrosLock.Lock(); if !l.distrosDone { l.cacheDistros() ... }.  fetches
\* lists the catalog requests of the goroutine's latest distro() call.
DistroEnter(p) ==
    /\ proc[p].pc = "distro"
    /\ distrosLock = 0
    /\ distrosLock' = p
    /\ proc' = [proc EXCEPT ![p] = [@ EXCEPT
                    !.pc = IF distrosDone THEN "distroLookup" ELSE "cacheDistros",
                    !.retry = 0, !.fetches = <<>>]]
    /\ UNCHANGED <<provider, distrosDone, distrosCache, kernelsCache>>

\* FetchDistros as it would be if the loop kept the error of its first
\* failed attempt.
FetchDistrosFirstErr(p) ==
    /\ proc[p].pc = "cacheDistros"
    /\ \E r \in SomeEnvelopes :
        LET err == DoThenResultErr(r.doErr, r.errors)
            fetches == Fetched(p, "avail.distributions", err = nil)
        IN  IF err = nil
            THEN /\ distrosCache' = provDistros
                 /\ proc' = [proc EXCEPT ![p] = [@ EXCEPT !.pc = "cacheKernels",
                                                          !.retry = 0,
                                                          !.fetches = fetches,
                                                          !.fetchErr = nil]]
                 /\ UNCHANGED distrosLock
            ELSE IF proc[p].retry + 1 < cacheAttempts
            THEN /\ proc' = [proc EXCEPT ![p] = [@ EXCEPT !.retry = @ + 1,
                                                          !.fetches = fetches,
                                                          !.fetchErr = err]]
                 /\ UNCHANGED <<distrosLock, distrosCache>>
            ELSE /\ distroReturn(p, NoDistro,
                        Errorf("cannot list Linode distributions",
                               IF proc[p].fetchErr # nil THEN proc[p].fetchErr
                               ELSE err), fetches, err)
                 /\ UNCHANGED distrosCache
    /\ UNCHANGED <<provider, distrosDone, kernelsCache>>

\* One attempt of the avail.distributions loop of cacheDistros.
FetchDistros(p) ==
    /\ proc[p].pc = "cacheDistros"
    /\ \E r \in SomeEnvelopes :
        LET err == DoThenResultErr(r.doErr, r.errors)
            fetches == Fetched(p, "avail.distributions", err = nil)
        IN  IF err = nil
            THEN /\ distrosCache' = provDistros
                 /\ proc' = [proc EXCEPT ![p] = [@ EXCEPT !.pc = "cacheKernels",
                                                          !.retry = 0,
                                                          !.fetches = fetches,
                                                          !.fetchErr = nil]]
                 /\ UNCHANGED distrosLock
            ELSE IF proc[p].retry + 1 < cacheAttempts
            THEN /\ proc' = [proc EXCEPT ![p] = [@ EXCEPT !.retry = @ + 1,
                                                          !.fetches = fetches,
                                                          !.fetchErr = err]]
                 /\ UNCHANGED <<distrosLock, distrosCache>>
            ELSE /\ distroReturn(p, NoDistro,
                        Errorf("cannot list Linode distributions", err), fetches, err)
                 /\ UNCHANGED distrosCache
    /\ UNCHANGED <<provider, distrosDone, kernelsCache>>

\* One attempt of the avail.kernels loop of cacheDistros and, once the list
\* is there, the rest of cacheDistros: the latest kernels and the back-fill.
FetchKernels(p) ==
    /\ proc[p].pc = "cacheKernels"
    /\ \E r \in SomeEnvelopes :
        LET err == DoThenResultErr(r.doErr, r.errors)
            fetches == Fetched(p, "avail.kernels", err = nil)
            l32 == latest32Of(provKernels)
            l64 == latest64Of(provKernels)
        IN  IF err = nil
            THEN /\ kernelsCache' = provKernels
                 /\ IF l32 = -1 \/ l64 = -1
                    THEN /\ distroReturn(p, NoDistro, ErrNoKernel, fetches, nil)
                         /\ UNCHANGED distrosCache
                    ELSE /\ distrosCache' = backfill(distrosCache, l32, l64)
                         /\ proc' = [proc EXCEPT ![p] = [@ EXCEPT
                                        !.pc = "distroLookup", !.retry = 0,
                                        !.fetches = fetches, !.fetchErr = nil]]
                         /\ UNCHANGED distrosLock
            ELSE IF proc[p].retry + 1 < cacheAttempts
            THEN /\ proc' = [proc EXCEPT ![p] = [@ EXCEPT !.retry = @ + 1,
                                                          !.fetches = fetches,
                                                          !.fetchErr = err]]
                 /\ UNCHANGED <<distrosLock, distrosCache, kernelsCache>>
            ELSE /\ distroReturn(p, NoDistro,
                        Errorf("cannot list Linode kernels", err), fetches, err)
                 /\ UNCHANGED <<distrosCache, kernelsCache>>
    /\ UNCHANGED <<provider, distrosDone>>

\* l.distrosDone = true and the lookup loop of distro().
DistroLookup(p) ==
    /\ proc[p].pc = "distroLookup"
    /\ distrosDone' = TRUE
    /\ LET best == distroLoop(distrosCache, proc[p].image, 1, NoDistro)
       IN  distroReturn(p, best, IF best = NoDistro THEN ErrNoSystem ELSE nil,
                        proc[p].fetches, nil)
    /\ UNCHANGED <<provider, distrosCache, kernelsCache>>

-----------------------------------------------------------------------------
(* Allocate and setup *)

ErrNoServers == <<"no servers in Linode account">>
ErrNoPoweredOff == <<"no powered off servers in Linode account">>
ErrNoPublicIP == <<"cannot find public IP">>
ErrEmptyBatch == <<"empty batch result">>
ErrEmptyResult == <<"empty result">>
ErrSilent == <<"job failed silently">>
ErrTimeout == <<"timeout waiting to boot">>

\* The return of Allocate (and of Discard): the goroutine is done.
return(p, server, err, calls) ==
    proc' = [proc EXCEPT ![p] = [@ EXCEPT !.pc = "done", !.server = server,
                                          !.err = err, !.calls = calls]]

\* The same return after a removeDisks call that decoded r.
returnRemoved(p, r, server, err, calls) ==
    proc' = [proc EXCEPT ![p] = [@ EXCEPT !.pc = "done", !.server = server,
                                          !.err = err, !.calls = calls,
                                          !.removal = r]]

\* The scan as it would be if it skipped only running machines.
RECURSIVE firstNotRunning(_, _)
firstNotRunning(list, i) ==
    IF i > Len(list) THEN 0
    ELSE IF list[i].Status = linodeRunning THEN firstNotRunning(list, i + 1)
    ELSE i

\* The scan as it would be if a later powered-off machine replaced an
\* earlier one.
RECURSIVE lastPoweredOff(_, _)
lastPoweredOff(list, i) ==
    IF i > Len(list) THEN 0
    ELSE IF lastPoweredOff(list, i + 1) # 0 THEN lastPoweredOff(list, i + 1)
    ELSE IF list[i].Status = linodePoweredOff THEN i
    ELSE 0

\* The loop of Allocate: the index of the first powered-off machine of the
\* listing from i on, 0 when there is none.
RECURSIVE firstPoweredOff(_, _)
firstPoweredOff(list, i) ==
    IF i > Len(list) THEN 0
    ELSE IF list[i].Status # linodePoweredOff THEN firstPoweredOff(list, i + 1)
    ELSE i

\* What linode.list decodes: l.do's error, or DATA; an envelope that reports
\* an error carries no DATA, and list does not look at its ERRORARRAY.
ListOutcomes ==
    { [doErr |-> e, data |-> <<>>] : e \in DoErrs }
    \cup { [doErr |-> nil, data |-> servers] }
    \cup { [doErr |-> nil, data |-> <<>>] }

\* Allocate up to setup's first call: list, the scan for a powered-off
\* machine, server.l and server.Img.  listed is Allocate's local servers;
\* fatal says that the error is a FatalError.
Allocate(p) ==
    /\ proc[p].pc = "Allocate"
    /\ \E r \in ListOutcomes :
        LET calls == Logged(p, "linode.list", 0, <<>>, r.doErr = nil)
            i == firstPoweredOff(r.data, 1)
        IN  IF r.doErr # nil THEN return(p, NoServer, r.doErr, calls)
            ELSE IF Len(r.data) = 0
            THEN proc' = [proc EXCEPT ![p] = [@ EXCEPT
                            !.pc = "done", !.listed = r.data,
                            !.err = ErrNoServers, !.fatal = TRUE,
                            !.calls = calls]]
            ELSE IF i = 0
            THEN proc' = [proc EXCEPT ![p] = [@ EXCEPT
                            !.pc = "done", !.listed = r.data,
                            !.err = ErrNoPoweredOff, !.calls = calls]]
            ELSE proc' = [proc EXCEPT ![p] = [@ EXCEPT
                            !.pc = "ip", !.listed = r.data,
                            !.server = [r.data[i] EXCEPT !.Img = proc[p].image],
                            !.calls = calls]]
    /\ UNCHANGED <<provider, cache>>

\* The loop of ip(): the first address marked public, "" when there is none.
RECURSIVE firstPublic(_, _)
firstPublic(ips, i) ==
    IF i > Len(ips) THEN ""
    ELSE IF ips[i].IsPublic = 1 THEN ips[i].IPAddress
    ELSE firstPublic(ips, i + 1)

\* setup: l.ip(server), server.Addr, and the call of createDisk up to its
\* call of l.distro.
SetupIP(p) ==
    /\ proc[p].pc = "ip"
    /\ \E r \in Envelopes :
        LET err == IF r.doErr # nil THEN r.doErr
                   ELSE IF r.errors # <<>>
                   THEN Errorf("cannot list IPs", ResultErr(r.errors))
                   ELSE IF firstPublic(ipList, 1) = "" THEN ErrNoPublicIP
                   ELSE nil
            calls == Logged(p, "linode.ip.list", proc[p].server.ID, <<>>, err = nil)
        IN  IF err # nil THEN return(p, NoServer, err, calls)
            ELSE proc' = [proc EXCEPT ![p] = [@ EXCEPT
                            !.pc = "distro", !.after = "createDisk",
                            !.server = [@ EXCEPT !.Addr = firstPublic(ipList, 1)],
                            !.calls = calls]]
    /\ UNCHANGED <<provider, cache>>

\* One sub-result of a batch: its ERRORARRAY (DATA is there when it is empty).
SubResults == ErrorArrays

\* What the batch of createDisk decodes: nothing when the request or the read
\* failed; a result sequence, possibly with a decode error beside it (a field
\* of the wrong type leaves the rest decoded), otherwise.
DiskBatchOutcomes ==
    { [doErr |-> e, results |-> <<>>] : e \in DoErrs }
    \cup { [doErr |-> e, results |-> rs] :
             e \in {nil, <<"cannot decode Linode response">>},
             rs \in SeqsUpTo(SubResults, 2) }

\* The loop of createDisk over the results: root and swap as it leaves them
\* (1 when set, 0 when nil), err, and whether it returned from inside.
createDiskLoop(doErr, results) ==
    IF Len(results) = 0
    THEN [root |-> 0, swap |-> 0, err |-> doErr, returned |-> FALSE]
    ELSE IF ResultErr(results[1]) # nil
    THEN [root |-> 0, swap |-> 0, err |-> ResultErr(results[1]), returned |-> FALSE]
    ELSE IF Len(results) = 1
    THEN [root |-> 1, swap |-> 0, err |-> doErr, returned |-> FALSE]
    ELSE IF ResultErr(results[2]) # nil
    THEN [root |-> 1, swap |-> 0, err |-> ResultErr(results[2]), returned |-> FALSE]
    ELSE [root |-> 1, swap |-> 1, err |-> nil, returned |-> TRUE]

\* The disks the provider creates for a batch: one for each sub-request it
\* answers without error, root first.
created(results, linode) ==
    LET rootOK == Len(results) >= 1 /\ results[1] = <<>>
        swapOK == Len(results) >= 2 /\ results[2] = <<>>
        rootID == IF rootOK THEN nextID ELSE 0
        swapID == IF ~swapOK THEN 0 ELSE IF rootOK THEN nextID + 1 ELSE nextID
    IN  [rootID |-> rootID, swapID |-> swapID,
         disks |-> (IF rootOK
                    THEN {[id |-> rootID, linode |-> linode, kind |-> "root"]}
                    ELSE {})
                   \cup (IF swapOK
                         THEN {[id |-> swapID, linode |-> linode, kind |-> "swap"]}
                         ELSE {}),
         next |-> nextID + (IF rootOK THEN 1 ELSE 0) + (IF swapOK THEN 1 ELSE 0)]

\* createDisk after l.distro returned: the batch call, the loop over its
\* results and, when no root disk is left to remove, its return; on success
\* setup's server.Root and server.Swap and createConfig's call of l.distro.
CreateDisk(p) ==
    /\ proc[p].pc = "createDisk"
    /\ IF proc[p].err # nil
       THEN /\ return(p, NoServer, proc[p].err, proc[p].calls)
            /\ UNCHANGED provider
       ELSE \E r \in DiskBatchOutcomes :
            LET made == created(r.results, proc[p].server.ID)
                loop == createDiskLoop(r.doErr, r.results)
                ids == IF loop.returned THEN <<made.rootID, made.swapID>>
                       ELSE IF loop.root # 0 THEN <<made.rootID>>
                       ELSE <<>>
                calls == Logged(p, "linode.disk.create", proc[p].server.ID,
                                ids, loop.returned)
            IN  /\ disks' = disks \cup made.disks
                /\ nextID' = made.next
                /\ UNCHANGED <<servers, ipList, provDistros, provKernels, configs>>
                /\ IF loop.returned
                   THEN proc' = [proc EXCEPT ![p] = [@ EXCEPT
                            !.pc = "distro", !.after = "createConfig",
                            !.server = [@ EXCEPT !.Root = made.rootID,
                                                 !.Swap = made.swapID],
                            !.results = r.results, !.batchErr = r.doErr, !.calls = calls]]
                   ELSE IF loop.root # 0
                   THEN proc' = [proc EXCEPT ![p] = [@ EXCEPT
                            !.pc = "diskRollback", !.root = made.rootID,
                            !.results = r.results, !.batchErr = r.doErr, !.err = loop.err,
                            !.calls = calls]]
                   ELSE proc' = [proc EXCEPT ![p] = [@ EXCEPT
                            !.pc = "done", !.server = NoServer,
                            !.results = r.results, !.batchErr = r.doErr,
                            !.err = Errorf("cannot create Linode disk",
                                           IF Len(r.results) = 0
                                           THEN ErrEmptyBatch ELSE loop.err),
                            !.calls = calls]]
    /\ UNCHANGED cache

-----------------------------------------------------------------------------
(* removeDisks and removeConfig *)

\* What the batch of removeDisks decodes for n disks.
RemoveDisksOutcomes(n) ==
    { [doErr |-> e, results |-> <<>>] : e \in DoErrs }
    \cup { [doErr |-> nil, results |-> rs] :
             rs \in SeqsUpTo({<<>>, <<[Code |-> 4, Message |-> MsgBad]>>}, n) }

\* The loop of removeDisks over the results: the first error, wrapped.
RECURSIVE removeDisksLoop(_, _)
removeDisksLoop(results, i) ==
    IF i > Len(results) THEN nil
    ELSE IF ResultErr(results[i]) # nil
    THEN Errorf("cannot remove disk", ResultErr(results[i]))
    ELSE removeDisksLoop(results, i + 1)

\* The error removeDisks returns.
removeDisksErr(r) ==
    IF r.doErr # nil THEN Errorf("cannot remove disk", r.doErr)
    ELSE removeDisksLoop(r.results, 1)

\* The provider's disks after the batch: a disk is gone when the sub-result
\* at its position reports no error.
disksAfter(diskIDs, r) ==
    LET gone == { diskIDs[i] : i \in { j \in 1..Len(diskIDs) :
                                       j <= Len(r.results) /\ r.results[j] = <<>> } }
    IN  { d \in disks : d.id \notin gone }

\* The error removeConfig returns.
removeConfigErr(r) ==
    IF DoThenResultErr(r.doErr, r.errors) # nil
    THEN Errorf("cannot remove config", DoThenResultErr(r.doErr, r.errors))
    ELSE nil

\* The provider's configurations after linode.config.delete.
configsAfter(configID, r) ==
    IF DoThenResultErr(r.doErr, r.errors) = nil
    THEN { c \in configs : c.id # configID }
    ELSE configs

\* DiskRollback as it would be if createDisk returned the error of the
\* removal when the removal fails.
DiskRollbackRemovalErr(p) ==
    /\ proc[p].pc = "diskRollback"
    /\ \E r \in RemoveDisksOutcomes(1) :
        /\ disks' = disksAfter(<<proc[p].root>>, r)
        /\ returnRemoved(p, r, NoServer,
                  Errorf("cannot create Linode disk",
                         IF removeDisksErr(r) # nil THEN removeDisksErr(r)
                         ELSE proc[p].err),
                  Logged(p, "linode.disk.delete", proc[p].server.ID,
                         <<proc[p].root>>, removeDisksErr(r) = nil))
    /\ UNCHANGED <<servers, ipList, provDistros, provKernels, configs, nextID, cache>>

\* createDisk's removeDisks(server, root.DiskID) and its return: root is set
\* only when a result was decoded, so the batch result is not empty here.
DiskRollback(p) ==
    /\ proc[p].pc = "diskRollback"
    /\ \E r \in RemoveDisksOutcomes(1) :
        /\ disks' = disksAfter(<<proc[p].root>>, r)
        /\ returnRemoved(p, r, NoServer, Errorf("cannot create Linode disk", proc[p].err),
                  Logged(p, "linode.disk.delete", proc[p].server.ID,
                         <<proc[p].root>>, removeDisksErr(r) = nil))
    /\ UNCHANGED <<servers, ipList, provDistros, provKernels, configs, nextID, cache>>

\* createConfig after l.distro returned: linode.config.create; on success
\* setup's server.Config.
CreateConfig(p) ==
    /\ proc[p].pc = "createConfig"
    /\ IF proc[p].err # nil
       THEN /\ proc' = [proc EXCEPT ![p] = [@ EXCEPT !.pc = "configRollback"]]
            /\ UNCHANGED provider
       ELSE \E r \in Envelopes :
            LET e == DoThenResultErr(r.doErr, r.errors)
                calls == Logged(p, "linode.config.create", proc[p].server.ID,
                                <<proc[p].server.Root, proc[p].server.Swap>>,
                                e = nil)
            IN  IF e # nil
                THEN /\ proc' = [proc EXCEPT ![p] = [@ EXCEPT
                            !.pc = "configRollback",
                            !.err = Errorf("cannot create config", e),
                            !.calls = calls]]
                     /\ UNCHANGED provider
                ELSE /\ configs' = configs \cup
                            {[id |-> nextID, linode |-> proc[p].server.ID,
                              kernel |-> proc[p].distro.KernelID,
                              root |-> proc[p].server.Root,
                              swap |-> proc[p].server.Swap]}
                     /\ nextID' = nextID + 1
                     /\ proc' = [proc EXCEPT ![p] = [@ EXCEPT
                            !.pc = "boot",
                            !.server = [@ EXCEPT !.Config = nextID],
                            !.calls = calls]]
                     /\ UNCHANGED <<servers, ipList, provDistros, provKernels, disks>>
    /\ UNCHANGED cache

\* ConfigRollback as it would be if setup returned the error of createConfig
\* at once, leaving the disks.
ConfigRollbackSkipped(p) ==
    /\ proc[p].pc = "configRollback"
    /\ return(p, NoServer, proc[p].err, proc[p].calls)
    /\ UNCHANGED <<provider, cache>>

\* setup after createConfig failed: removeDisks(server.Root, server.Swap),
\* its error dropped, and the return of the error of createConfig.
ConfigRollback(p) ==
    /\ proc[p].pc = "configRollback"
    /\ \E r \in RemoveDisksOutcomes(2) :
        LET ids == <<proc[p].server.Root, proc[p].server.Swap>>
        IN  /\ disks' = disksAfter(ids, r)
            /\ returnRemoved(p, r, NoServer, proc[p].err,
                      Logged(p, "linode.disk.delete", proc[p].server.ID, ids,
                             removeDisksErr(r) = nil))
    /\ UNCHANGED <<servers, ipList, provDistros, provKernels, configs, nextID, cache>>

\* l.boot: serverJob with verb reboot; on success waitJob starts its timers.
Boot(p) ==
    /\ proc[p].pc = "boot"
    /\ \E r \in Envelopes :
        LET e == DoThenResultErr(r.doErr, r.errors)
            calls == Logged(p, "linode.reboot", proc[p].server.ID,
                            <<proc[p].server.Config>>, e = nil)
        IN  IF e # nil
            THEN /\ proc' = [proc EXCEPT ![p] = [@ EXCEPT
                        !.pc = "setupRemoveConfig",
                        !.err = Errorf("cannot reboot", e), !.calls = calls]]
                 /\ UNCHANGED nextID
            ELSE /\ proc' = [proc EXCEPT ![p] = [@ EXCEPT
                        !.pc = "waitJob", !.jobID = nextID, !.now = 0,
                        !.tick = FALSE, !.infoErr = nil, !.calls = calls]]
                 /\ nextID' = nextID + 1
    /\ UNCHANGED <<servers, ipList, provDistros, provKernels, disks, configs, cache>>

-----------------------------------------------------------------------------
(* waitJob *)

\* The job as linode.job.list reports it: still running (no finish time), or
\* finished, with or without success and with or without a message.
JobInfos(jobID) ==
    { [JobID |-> jobID, HostFinish |-> "", HostSuccess |-> 0, HostMessage |-> <<>>] }
    \cup { [JobID |-> jobID, HostFinish |-> "2016-06-01 12:00:00.0",
            HostSuccess |-> x, HostMessage |-> m] :
            x \in {0, 1}, m \in {<<>>, MsgBad} }

\* What jobInfo decodes for linode.job.list.
JobOutcomes(jobID) ==
    { [doErr |-> r.doErr, errors |-> r.errors, data |-> <<>>] : r \in SomeEnvelopes }
    \cup { [doErr |-> nil, errors |-> <<>>, data |-> <<j>>] : j \in JobInfos(jobID) }

\* The error jobInfo returns.
jobInfoErr(r) ==
    LET e == DoThenResultErr(r.doErr, r.errors)
        e2 == IF e = nil /\ Len(r.data) = 0 THEN ErrEmptyResult ELSE e
    IN  IF e2 # nil THEN Errorf("cannot get job details", e2) ELSE nil

\* jobErr as it would be if a finished job without a message passed for a
\* success.
jobErrIgnoringSilent(job) ==
    IF job.HostSuccess = 1 \/ job.HostFinish = "" THEN nil
    ELSE IF job.HostMessage # <<>> THEN LowerFirst(job.HostMessage)
    ELSE nil

\* linodeJobInfo.err
jobErr(job) ==
    IF job.HostSuccess = 1 \/ job.HostFinish = "" THEN nil
    ELSE IF job.HostMessage # <<>> THEN LowerFirst(job.HostMessage)
    ELSE ErrSilent

\* The select of waitJob.  Time is counted in ticker intervals since the
\* timers were made; tick says that retry.C holds a tick.  The timeout timer
\* is made first, so a goroutine blocked in the select at the deadline takes
\* the timeout; one that comes back from a poll after the deadline finds
\* both channels ready and takes either.
tickCase(q) == q.tick \/ q.now + 1 < Deadline
timeoutCase(q) == q.now >= Deadline \/ (~q.tick /\ q.now + 1 = Deadline)

\* case <-retry.C: one jobInfo call, which lasts d intervals.  The polls of
\* a wait are counted, not listed among the calls; the count, the timers and
\* infoErr are waitJob's own and end with it.  job is the job the last
\* successful jobInfo returned.
WaitPoll(p) ==
    /\ proc[p].pc = "waitJob"
    /\ tickCase(proc[p])
    /\ \E d \in 0..MaxPollTicks, r \in JobOutcomes(proc[p].jobID) :
        LET start == IF proc[p].tick THEN proc[p].now ELSE proc[p].now + 1
            e == jobInfoErr(r)
            job == r.data[1]
        IN  /\ start + d <= MaxTime
            /\ IF e # nil
               THEN proc' = [proc EXCEPT ![p] = [@ EXCEPT
                        !.now = start + d, !.tick = (d > 0), !.polls = @ + 1,
                        !.infoErr = Errorf("cannot boot", e)]]
               ELSE IF job.HostFinish = ""
               THEN proc' = [proc EXCEPT ![p] = [@ EXCEPT
                        !.now = start + d, !.tick = (d > 0), !.polls = @ + 1,
                        !.job = job]]
               ELSE IF jobErr(job) # nil
               THEN proc' = [proc EXCEPT ![p] = [@ EXCEPT
                        !.pc = "setupRemoveConfig", !.job = job,
                        !.now = 0, !.tick = FALSE, !.infoErr = nil,
                        !.polls = 0,
                        !.err = Errorf("cannot boot", jobErr(job))]]
               ELSE proc' = [proc EXCEPT ![p] = [@ EXCEPT
                        !.pc = "done", !.job = job,
                        !.now = 0, !.tick = FALSE, !.infoErr = nil,
                        !.polls = 0, !.err = nil]]
    /\ UNCHANGED <<provider, cache>>

\* WaitTimeout as it would be if the timeout case did not look at infoErr.
WaitTimeoutIgnoringInfoErr(p) ==
    /\ proc[p].pc = "waitJob"
    /\ timeoutCase(proc[p])
    /\ \E r \in Envelopes :
        /\ configs' = configsAfter(proc[p].server.Config, r)
        /\ proc' = [proc EXCEPT ![p] = [@ EXCEPT
                !.pc = "waitRemoveDisks",
                !.now = 0, !.tick = FALSE, !.infoErr = nil, !.polls = 0,
                !.calls = Logged(p, "linode.config.delete", proc[p].server.ID,
                                 <<proc[p].server.Config>>,
                                 removeConfigErr(r) = nil)]]
    /\ UNCHANGED <<servers, ipList, provDistros, provKernels, disks, nextID, cache>>

\* case <-timeout: the return of the last polling error, or removeConfig.
WaitTimeout(p) ==
    /\ proc[p].pc = "waitJob"
    /\ timeoutCase(proc[p])
    /\ IF proc[p].infoErr # nil
       THEN /\ proc' = [proc EXCEPT ![p] = [@ EXCEPT
                    !.pc = "setupRemoveConfig", !.err = proc[p].infoErr,
                    !.now = 0, !.tick = FALSE, !.infoErr = nil, !.polls = 0]]
            /\ UNCHANGED configs
       ELSE \E r \in Envelopes :
            /\ configs' = configsAfter(proc[p].server.Config, r)
            /\ proc' = [proc EXCEPT ![p] = [@ EXCEPT
                    !.pc = "waitRemoveDisks",
                    !.now = 0, !.tick = FALSE, !.polls = 0,
                    !.calls = Logged(p, "linode.config.delete", proc[p].server.ID,
                                     <<proc[p].server.Config>>,
                                     removeConfigErr(r) = nil)]]
    /\ UNCHANGED <<servers, ipList, provDistros, provKernels, disks, nextID, cache>>

\* The timeout case goes on: removeDisks and the return of the timeout error.
WaitRemoveDisks(p) ==
    /\ proc[p].pc = "waitRemoveDisks"
    /\ \E r \in RemoveDisksOutcomes(2) :
        LET ids == <<proc[p].server.Root, proc[p].server.Swap>>
        IN  /\ disks' = disksAfter(ids, r)
            /\ proc' = [proc EXCEPT ![p] = [@ EXCEPT
                    !.pc = "setupRemoveConfig", !.err = ErrTimeout,
                    !.removal = r,
                    !.calls = Logged(p, "linode.disk.delete", proc[p].server.ID,
                                     ids, removeDisksErr(r) = nil)]]
    /\ UNCHANGED <<servers, ipList, provDistros, provKernels, configs, nextID, cache>>

\* setup after boot or waitJob failed: removeConfig, its error dropped.
SetupRemoveConfig(p) ==
    /\ proc[p].pc = "setupRemoveConfig"
    /\ \E r \in Envelopes :
        /\ configs' = configsAfter(proc[p].server.Config, r)
        /\ proc' = [proc EXCEPT ![p] = [@ EXCEPT
                !.pc = "setupRemoveDisks",
                !.calls = Logged(p, "linode.config.delete", proc[p].server.ID,
                                 <<proc[p].server.Config>>,
                                 removeConfigErr(r) = nil)]]
    /\ UNCHANGED <<servers, ipList, provDistros, provKernels, disks, nextID, cache>>

\* SetupRemoveDisks as it would be if setup returned the error of the
\* removal when the removal fails.
SetupRemoveDisksRemovalErr(p) ==
    /\ proc[p].pc = "setupRemoveDisks"
    /\ \E r \in RemoveDisksOutcomes(2) :
        LET ids == <<proc[p].server.Root, proc[p].server.Swap>>
        IN  /\ disks' = disksAfter(ids, r)
            /\ returnRemoved(p, r, NoServer,
                      IF removeDisksErr(r) # nil THEN removeDisksErr(r)
                      ELSE proc[p].err,
                      Logged(p, "linode.disk.delete", proc[p].server.ID, ids,
                             removeDisksErr(r) = nil))
    /\ UNCHANGED <<servers, ipList, provDistros, provKernels, configs, nextID, cache>>

\* setup goes on: removeDisks, its error dropped, and the return of err.
SetupRemoveDisks(p) ==
    /\ proc[p].pc = "setupRemoveDisks"
    /\ \E r \in RemoveDisksOutcomes(2) :
        LET ids == <<proc[p].server.Root, proc[p].server.Swap>>
        IN  /\ disks' = disksAfter(ids, r)
            /\ returnRemoved(p, r, NoServer, proc[p].err,
                      Logged(p, "linode.disk.delete", proc[p].server.ID, ids,
                             removeDisksErr(r) = nil))
    /\ UNCHANGED <<servers, ipList, provDistros, provKernels, configs, nextID, cache>>

-----------------------------------------------------------------------------
(* Discard *)

RECURSIVE firstErrFrom(_, _)
firstErrFrom(errs, i) ==
    IF i > Len(errs) THEN nil
    ELSE IF errs[i] # nil THEN errs[i]
    ELSE firstErrFrom(errs, i + 1)

\* firstErr as it would be if a later error replaced an earlier one.
lastErr(errs) ==
    IF errs[3] # nil THEN errs[3]
    ELSE IF errs[2] # nil THEN errs[2]
    ELSE errs[1]

firstErr(errs) == firstErrFrom(errs, 1)

\* _, err1 := s.l.shutdown(s)
Shutdown(p) ==
    /\ proc[p].pc = "Discard"
    /\ \E r \in Envelopes :
        LET e == DoThenResultErr(r.doErr, r.errors)
            err1 == IF e # nil THEN Errorf("cannot shutdown", e) ELSE nil
        IN  proc' = [proc EXCEPT ![p] = [@ EXCEPT
                !.pc = "discardConfig", !.errs = <<err1>>,
                !.calls = Logged(p, "linode.shutdown", proc[p].server.ID,
                                 <<>>, err1 = nil)]]
    /\ UNCHANGED <<provider, cache>>

\* err2 := s.l.removeConfig(s, s.Config)
DiscardConfig(p) ==
    /\ proc[p].pc = "discardConfig"
    /\ \E r \in Envelopes :
        /\ configs' = configsAfter(proc[p].server.Config, r)
        /\ proc' = [proc EXCEPT ![p] = [@ EXCEPT
                !.pc = "discardDisks",
                !.errs = Append(@, removeConfigErr(r)),
                !.calls = Logged(p, "linode.config.delete", proc[p].server.ID,
                                 <<proc[p].server.Config>>,
                                 removeConfigErr(r) = nil)]]
    /\ UNCHANGED <<servers, ipList, provDistros, provKernels, disks, nextID, cache>>

\* err3 := s.l.removeDisks(s, s.Root, s.Swap); return firstErr(err1, err2, err3)
DiscardDisks(p) ==
    /\ proc[p].pc = "discardDisks"
    /\ \E r \in RemoveDisksOutcomes(2) :
        LET ids == <<proc[p].server.Root, proc[p].server.Swap>>
            errs == Append(proc[p].errs, removeDisksErr(r))
        IN  /\ disks' = disksAfter(ids, r)
            /\ proc' = [proc EXCEPT ![p] = [@ EXCEPT
                    !.pc = "done", !.errs = errs, !.err = firstErr(errs),
                    !.removal = r,
                    !.calls = Logged(p, "linode.disk.delete", proc[p].server.ID,
                                     ids, removeDisksErr(r) = nil)]]
    /\ UNCHANGED <<servers, ipList, provDistros, provKernels, configs, nextID, cache>>

-----------------------------------------------------------------------------
(* The specification: one goroutine running Allocate or Discard *)

Callers == {1}

Statuses == {linodeBrandNew, linodeRunning, linodePoweredOff}

\* The listings of an account: machine i has ID 10 + i.
Listings ==
    { [i \in 1..Len(st) |-> Server(10 + i, st[i])] :
        st \in SeqsUpTo(Statuses, MaxServers) }

IP(public, addr) == [IsPublic |-> public, IPAddress |-> addr]

IPLists ==
    { <<>>,
      <<IP(0, "192.168.0.7")>>,
      <<IP(0, "192.168.0.7"), IP(1, "1.2.3.4")>>,
      <<IP(1, "5.6.7.8"), IP(1, "1.2.3.4")>> }

\* A machine Allocate returned earlier (or Reuse rebuilt), with the disks and
\* the configuration the provider holds for it.
Provisioned ==
    [ID |-> 11, Label |-> "spread-1", Status |-> 0, Addr |-> "1.2.3.4",
     Img |-> Ubuntu, Config |-> 3, Root |-> 1, Swap |-> 2]

InitAllocate ==
    /\ servers \in Listings
    /\ ipList \in IPLists
    /\ provDistros \in CatalogDistroLists
    /\ provKernels \in CatalogKernelLists
    /\ disks = {}
    /\ configs = {}
    /\ nextID = 1
    /\ proc \in [Callers -> { Start("Allocate", s, NoServer, "Allocate") :
                               s \in {Ubuntu, Fedora} }]

InitDiscard ==
    /\ servers = <<Server(11, linodeRunning)>>
    /\ ipList = <<IP(1, "1.2.3.4")>>
    /\ provDistros \in CatalogDistroLists
    /\ provKernels \in CatalogKernelLists
    /\ disks = { [id |-> 1, linode |-> 11, kind |-> "root"],
                 [id |-> 2, linode |-> 11, kind |-> "swap"] }
    /\ configs = { [id |-> 3, linode |-> 11, kernel |-> 7, root |-> 1, swap |-> 2] }
    /\ nextID = 5
    /\ proc = [p \in Callers |-> Start("Discard", Ubuntu, Provisioned, "Discard")]

Init ==
    /\ distrosLock = 0
    /\ distrosDone = FALSE
    /\ distrosCache = <<>>
    /\ kernelsCache = <<>>
    /\ (InitAllocate \/ InitDiscard)

Next ==
    \/ \E p \in Callers : Allocate(p)
    \/ \E p \in Callers : SetupIP(p)
    \/ \E p \in Callers : DistroEnter(p)
    \/ \E p \in Callers : FetchDistros(p)
    \/ \E p \in Callers : FetchKernels(p)
    \/ \E p \in Callers : DistroLookup(p)
    \/ \E p \in Callers : CreateDisk(p)
    \/ \E p \in Callers : DiskRollback(p)
    \/ \E p \in Callers : CreateConfig(p)
    \/ \E p \in Callers : ConfigRollback(p)
    \/ \E p \in Callers : Boot(p)
    \/ \E p \in Callers : WaitPoll(p)
    \/ \E p \in Callers : WaitTimeout(p)
    \/ \E p \in Callers : WaitRemoveDisks(p)
    \/ \E p \in Callers : SetupRemoveConfig(p)
    \/ \E p \in Callers : SetupRemoveDisks(p)
    \/ \E p \in Callers : Shutdown(p)
    \/ \E p \in Callers : DiscardConfig(p)
    \/ \E p \in Callers : DiscardDisks(p)

Spec == Init /\ [][Next]_vars

-----------------------------------------------------------------------------
(* The catalog specification: concurrent distro() calls on one provider *)

Resolvers == 1..NumResolvers

InitCatalog ==
    /\ servers = <<>>
    /\ ipList = <<>>
    /\ provDistros \in CatalogDistroLists
    /\ provKernels \in CatalogKernelLists
    /\ disks = {}
    /\ configs = {}
    /\ nextID = 1
    /\ distrosLock = 0
    /\ distrosDone = FALSE
    /\ distrosCache = <<>>
    /\ kernelsCache = <<>>
    /\ proc \in [Resolvers ->
                    { Start("distro", s, NoServer, "distro") : s \in {Ubuntu, Fedora} }]

NextCatalog ==
    \/ \E p \in Resolvers : DistroEnter(p)
    \/ \E p \in Resolvers : FetchDistros(p)
    \/ \E p \in Resolvers : FetchKernels(p)
    \/ \E p \in Resolvers : DistroLookup(p)

SpecCatalog == InitCatalog /\ [][NextCatalog]_vars

-----------------------------------------------------------------------------
(* The resolve specification: one distro() call on any catalog *)

InitResolve ==
    /\ servers = <<>>
    /\ ipList = <<>>
    /\ provDistros \in SeqsUpTo(DistroPool, MaxDistros)
    /\ provKernels \in KernelLists
    /\ disks = {}
    /\ configs = {}
    /\ nextID = 1
    /\ distrosLock = 0
    /\ distrosDone = FALSE
    /\ distrosCache = <<>>
    /\ kernelsCache = <<>>
    /\ proc \in [Callers -> { Start("distro", s, NoServer, "distro") : s \in Systems }]

NextResolve ==
    \/ \E p \in Callers : DistroEnter(p)
    \/ \E p \in Callers : FetchDistros(p)
    \/ \E p \in Callers : FetchKernels(p)
    \/ \E p \in Callers : DistroLookup(p)

SpecResolve == InitResolve /\ [][NextResolve]_vars

-----------------------------------------------------------------------------
(* ReuseData and Reuse: the YAML form of linodeServer *)

\* strconv for the integers of the model: the decimal text of n.
Decimal == <<"1", "2", "3", "4", "5", "6", "7", "8", "9", "10", "11", "12", "13">>
Itoa(n) == IF n = 0 THEN "0" ELSE Decimal[n]
IsDecimal(text) == \E n \in 0..Len(Decimal) : Itoa(n) = text
Atoi(text) == CHOOSE n \in 0..Len(Decimal) : Itoa(n) = text

\* What a plain YAML scalar resolves to.
Resolve(text) ==
    IF text \in {"", "~", "null"} THEN "null"
    ELSE IF text \in {"true", "false"} THEN "bool"
    ELSE IF IsDecimal(text) THEN "int"
    ELSE "str"

\* A scalar of the document: its style and its text.
Scalar(style, text) == [style |-> style, text |-> text]

\* The encoder writes an integer plain, and a string plain unless it would
\* then resolve to something else than a string.  An image identifier
\* (system and version) always resolves to a string.
EncodeInt(n) == Scalar("plain", Itoa(n))
EncodeString(v) == Scalar(IF Resolve(v) = "str" THEN "plain" ELSE "quoted", v)
EncodeImage(img) == Scalar("plain", img)

Encode(kind, v) ==
    IF kind = "int" THEN EncodeInt(v)
    ELSE IF kind = "string" THEN EncodeString(v)
    ELSE EncodeImage(v)

\* The decoder: an int field takes a plain scalar that resolves to an
\* integer and nothing else; a string field takes the text, "" for null.
Decodes(kind, scalar) ==
    kind = "int" => (scalar.style = "plain" /\ Resolve(scalar.text) = "int")

Decode(kind, scalar) ==
    IF kind = "int" THEN Atoi(scalar.text)
    ELSE IF kind = "image" THEN scalar.text
    ELSE IF scalar.style = "plain" /\ Resolve(scalar.text) = "null" THEN ""
    ELSE scalar.text

\* The fields of linodeServer as they would go to YAML if Status had no
\* yaml:"-" tag.
yamlFieldsWithStatus ==
    << [field |-> "ID", key |-> "id", kind |-> "int"],
       [field |-> "Label", key |-> "label", kind |-> "string"],
       [field |-> "Status", key |-> "status", kind |-> "int"],
       [field |-> "Addr", key |-> "address", kind |-> "string"],
       [field |-> "Img", key |-> "image", kind |-> "image"],
       [field |-> "Config", key |-> "config", kind |-> "int"],
       [field |-> "Root", key |-> "root", kind |-> "int"],
       [field |-> "Swap", key |-> "swap", kind |-> "int"] >>

\* The exported fields of linodeServer that go to YAML, in the order of the
\* struct, with their keys: the yaml tag, else the field name in lower case.
\* Status has the tag "-" and l is not exported.
yamlFields ==
    << [field |-> "ID", key |-> "id", kind |-> "int"],
       [field |-> "Label", key |-> "label", kind |-> "string"],
       [field |-> "Addr", key |-> "address", kind |-> "string"],
       [field |-> "Img", key |-> "image", kind |-> "image"],
       [field |-> "Config", key |-> "config", kind |-> "int"],
       [field |-> "Root", key |-> "root", kind |-> "int"],
       [field |-> "Swap", key |-> "swap", kind |-> "int"] >>

\* yaml.Marshal(s): one key and scalar for each field.
Marshal(server) ==
    [i \in 1..Len(yamlFields) |->
        [key |-> yamlFields[i].key,
         scalar |-> Encode(yamlFields[i].kind, server[yamlFields[i].field])]]

\* The field a key of the document goes to, 0 when there is none.
fieldOf(key) ==
    IF \E i \in 1..Len(yamlFields) : yamlFields[i].key = key
    THEN CHOOSE i \in 1..Len(yamlFields) : yamlFields[i].key = key
    ELSE 0

\* yaml.Unmarshal(data, server) from entry i on: each entry sets its field;
\* ok tells whether every scalar could be decoded.
RECURSIVE Unmarshal(_, _, _)
Unmarshal(data, i, server) ==
    IF i > Len(data) THEN [ok |-> TRUE, server |-> server]
    ELSE LET f == fieldOf(data[i].key)
         IN  IF f = 0 THEN Unmarshal(data, i + 1, server)
             ELSE IF ~Decodes(yamlFields[f].kind, data[i].scalar)
             THEN [ok |-> FALSE, server |-> server]
             ELSE Unmarshal(data, i + 1,
                     [server EXCEPT ![yamlFields[f].field] =
                         Decode(yamlFields[f].kind, data[i].scalar)])

ErrUnmarshal == <<"cannot unmarshal Linode reuse data">>

\* func (s *linodeServer) ReuseData() []byte
ReuseData(p) ==
    /\ proc[p].pc = "ReuseData"
    /\ proc' = [proc EXCEPT ![p] = [@ EXCEPT !.pc = "Reuse",
                                             !.data = Marshal(proc[p].server)]]
    /\ UNCHANGED <<provider, cache>>

\* func (l *linode) Reuse(data []byte, password string) (Server, error)
Reuse(p) ==
    /\ proc[p].pc = "Reuse"
    /\ LET r == Unmarshal(proc[p].data, 1, NoServer)
       IN  proc' = [proc EXCEPT ![p] = [@ EXCEPT
                !.pc = "done",
                !.reused = IF r.ok THEN r.server ELSE NoServer,
                !.err = IF r.ok THEN nil ELSE ErrUnmarshal]]
    /\ UNCHANGED <<provider, cache>>

\* The machines handed to ReuseData: what setup left, or a handle that was
\* itself rebuilt by Reuse; a label may read as a number or a keyword.
Machines ==
    { [ID |-> 10 + i, Label |-> lb, Status |-> st, Addr |-> a, Img |-> img,
       Config |-> ids[1], Root |-> ids[2], Swap |-> ids[3]] :
        i \in 1..2, lb \in {"spread-1", "12", "true", ""}, st \in Statuses,
        a \in {"1.2.3.4", "5.6.7.8"}, img \in {Ubuntu, Arch},
        ids \in {<<3, 1, 2>>, <<6, 4, 5>>, <<0, 0, 0>>} }

InitReuse ==
    /\ servers = <<>>
    /\ ipList = <<>>
    /\ provDistros = <<>>
    /\ provKernels = <<>>
    /\ disks = {}
    /\ configs = {}
    /\ nextID = 1
    /\ distrosLock = 0
    /\ distrosDone = FALSE
    /\ distrosCache = <<>>
    /\ kernelsCache = <<>>
    /\ proc \in [Callers -> { Start("Reuse", m.Img, m, "ReuseData") : m \in Machines }]

NextReuse ==
    \/ \E p \in Callers : ReuseData(p)
    \/ \E p \in Callers : Reuse(p)

SpecReuse == InitReuse /\ [][NextReuse]_vars

-----------------------------------------------------------------------------
(* Properties of Allocate and Discard, checked under Spec *)

Returned(p, op) == proc[p].op = op /\ proc[p].pc = "done"

Actions(calls) == [i \in 1..Len(calls) |-> calls[i].action]

\* C1: when a step of Allocate fails after the disks were created, the
\* removal of everything created so far has been attempted by the time
\* Allocate returns: the log ends with linode.disk.delete naming the two
\* disks linode.disk.create returned; a failed linode.config.create is
\* followed by nothing else (no boot); a successful one is followed by
\* linode.reboot, and linode.config.delete naming its configuration comes
\* right before the final linode.disk.delete.
C1_RollbackAttempted ==
    \A p \in Callers : (Returned(p, "Allocate") /\ proc[p].err # nil) =>
        LET c == proc[p].calls
            n == Len(c)
        IN  \A i \in 1..n :
              /\ (c[i].action = "linode.disk.create" /\ c[i].ok) =>
                    /\ n > i
                    /\ Len(c[i].args) = 2
                    /\ c[n].action = "linode.disk.delete"
                    /\ c[n].id = c[i].id
                    /\ c[n].args = c[i].args
              /\ (c[i].action = "linode.config.create" /\ ~c[i].ok) =>
                    /\ n = i + 1
                    /\ c[i].args = c[n].args
              /\ (c[i].action = "linode.config.create" /\ c[i].ok) =>
                    /\ n >= i + 3
                    /\ c[i + 1].action = "linode.reboot"
                    /\ c[n - 1].action = "linode.config.delete"
                    /\ c[n - 1].id = c[i].id
                    /\ c[n - 1].args = c[i + 1].args

\* Allocate returned the error of a failed boot request after both removals.
C1_Witness ==
    \E p \in Callers :
        /\ Returned(p, "Allocate")
        /\ proc[p].err # nil
        /\ \E i \in 1..Len(proc[p].calls) :
            /\ proc[p].calls[i].action = "linode.reboot"
            /\ ~proc[p].calls[i].ok
            /\ Len(proc[p].calls) = i + 2

\* The batch answered its root sub-request without error and its swap
\* sub-request with one.
SwapFailed(q) ==
    /\ q.op = "Allocate"
    /\ Len(q.results) = 2
    /\ q.results[1] = <<>>
    /\ q.results[2] # <<>>

\* C2: when the root sub-result of the disk batch carries no error and the
\* swap sub-result carries one, the removal of the root disk the provider
\* made is requested (the disk is there until then), Allocate returns no
\* machine and no disk, and its error is the one of the swap sub-result.
C2_SwapFailureRemovesRoot ==
    \A p \in Callers :
        LET q == proc[p]
            c == q.calls
            n == Len(c)
        IN  /\ (SwapFailed(q) /\ q.pc = "diskRollback") =>
                /\ q.root # 0
                /\ [id |-> q.root, linode |-> q.server.ID, kind |-> "root"] \in disks
                /\ c[n].action = "linode.disk.create"
                /\ ~c[n].ok
            /\ (SwapFailed(q) /\ q.pc = "done") =>
                /\ q.server = NoServer
                /\ q.err = <<"cannot create Linode disk">>
                            \o LowerFirst(q.results[2][1].Message)
                /\ n >= 2
                /\ c[n - 1].action = "linode.disk.create"
                /\ ~c[n - 1].ok
                /\ c[n].action = "linode.disk.delete"
                /\ c[n].args = <<q.root>>
                /\ c[n].args = c[n - 1].args
                /\ \A i \in 1..n : c[i].action # "linode.config.create"

\* Allocate returned after a swap failure whose root removal failed too.
C2_Witness ==
    \E p \in Callers :
        /\ SwapFailed(proc[p])
        /\ proc[p].pc = "done"
        /\ ~proc[p].calls[Len(proc[p].calls)].ok

\* C3: when the listing is empty Allocate returns the fatal error "no servers
\* in Linode account"; when the listing holds machines and none is powered
\* off it returns the ordinary error "no powered off servers in Linode
\* account"; in both cases linode.list is the only request made.
C3_NothingToAllocate ==
    \A p \in Callers :
        LET q == proc[p]
        IN  (Returned(p, "Allocate") /\ q.calls[1].ok) =>
            /\ q.listed = <<>> =>
                /\ q.fatal
                /\ q.err = <<"no servers in Linode account">>
                /\ q.server = NoServer
                /\ Len(q.calls) = 1
                /\ q.fetches = <<>>
            /\ (q.listed # <<>>
                /\ \A i \in 1..Len(q.listed) :
                      q.listed[i].Status # linodePoweredOff) =>
                /\ ~q.fatal
                /\ q.err = <<"no powered off servers in Linode account">>
                /\ q.server = NoServer
                /\ Len(q.calls) = 1
                /\ q.fetches = <<>>
            /\ q.fatal => q.listed = <<>>

\* Allocate returned for a listing of two machines, neither powered off.
C3_Witness ==
    \E p \in Callers :
        /\ Returned(p, "Allocate")
        /\ Len(proc[p].listed) = 2
        /\ proc[p].err = ErrNoPoweredOff

\* C4: when Allocate succeeds, the machine is the first powered-off one of
\* the listing; its address is the first public one the provider listed; its
\* root and swap disks and its configuration are the ones the provider made
\* for it; the requests were linode.list, linode.ip.list, linode.disk.create,
\* linode.config.create and linode.reboot, in this order and each taken as a
\* success; the polls came after linode.reboot; and the poll that ended the
\* wait reported the boot job finished and successful.
C4_Success ==
    \A p \in Callers :
        LET q == proc[p]
            s == q.server
            L == q.listed
        IN  /\ (q.op = "Allocate" /\ q.polls > 0) =>
                /\ q.calls[Len(q.calls)].action = "linode.reboot"
                /\ q.calls[Len(q.calls)].ok
            /\ (Returned(p, "Allocate") /\ q.err = nil) =>
                /\ L = servers
                /\ \E i \in 1..Len(L) :
                    /\ L[i].ID = s.ID
                    /\ L[i].Status = linodePoweredOff
                    /\ \A j \in 1..(i - 1) : L[j].Status # linodePoweredOff
                /\ s.Img = q.image
                /\ \E k \in 1..Len(ipList) :
                    /\ ipList[k].IsPublic = 1
                    /\ ipList[k].IPAddress = s.Addr
                    /\ \A j \in 1..(k - 1) : ipList[j].IsPublic # 1
                /\ s.Root # s.Swap
                /\ [id |-> s.Root, linode |-> s.ID, kind |-> "root"] \in disks
                /\ [id |-> s.Swap, linode |-> s.ID, kind |-> "swap"] \in disks
                /\ \E cfg \in configs :
                    /\ cfg.id = s.Config
                    /\ cfg.linode = s.ID
                    /\ cfg.root = s.Root
                    /\ cfg.swap = s.Swap
                /\ Actions(q.calls) =
                      <<"linode.list", "linode.ip.list", "linode.disk.create",
                        "linode.config.create", "linode.reboot">>
                /\ \A i \in 1..Len(q.calls) : q.calls[i].ok
                /\ q.calls[3].args = <<s.Root, s.Swap>>
                /\ q.calls[5].args = <<s.Config>>
                /\ q.job.JobID = q.jobID
                /\ q.job.HostFinish # ""
                /\ q.job.HostSuccess = 1

\* Allocate succeeded with the second machine of a listing whose first one
\* is not powered off.
C4_Witness ==
    \E p \in Callers :
        /\ Returned(p, "Allocate")
        /\ proc[p].err = nil
        /\ Len(proc[p].listed) = 2
        /\ proc[p].server.ID = proc[p].listed[2].ID

\* The last two calls of the log are removals and both failed.
RemovalsFailed(calls) ==
    /\ Len(calls) >= 2
    /\ calls[Len(calls) - 1].action = "linode.config.delete"
    /\ ~calls[Len(calls) - 1].ok
    /\ calls[Len(calls)].action = "linode.disk.delete"
    /\ ~calls[Len(calls)].ok

\* What a rollback step of goroutine p does to the error Allocate returns.
ErrorKept(p) ==
    LET q == proc[p]
        r == proc'[p]
    IN  (q.op = "Allocate" /\ r # q) =>
        /\ q.pc = "diskRollback" =>
              /\ r.pc = "done"
              /\ r.err = <<"cannot create Linode disk">>
                            \o (IF q.err = nil THEN <<"<nil>">> ELSE q.err)
        /\ q.pc \in {"configRollback", "setupRemoveConfig", "setupRemoveDisks"} =>
              /\ q.err # nil
              /\ r.err = q.err
        /\ q.pc = "waitRemoveDisks" => r.err = ErrTimeout
        /\ (q.pc = "waitJob" /\ r.pc = "waitRemoveDisks") => r.err = q.err

\* C5: the error a failed Allocate returns is the one of the step that
\* failed: every rollback step (the removal of the root disk in createDisk,
\* the removals of the configuration and of the disks in setup and in the
\* timeout case of the wait) leaves the error what it was before the step,
\* whether the removal succeeds or fails; createDisk only puts "cannot
\* create Linode disk" in front of the error its loop left.
C5_RollbackKeepsError == [][\A p \in Callers : ErrorKept(p)]_vars

\* Allocate returned the error of the failed job although the removal of
\* the configuration and the removal of the disks failed both.
C5_Witness ==
    \E p \in Callers :
        /\ Returned(p, "Allocate")
        /\ proc[p].err = <<"cannot boot">> \o ErrSilent
        /\ RemovalsFailed(proc[p].calls)

\* C6: Discard issues linode.shutdown, linode.config.delete (the machine's
\* configuration) and linode.disk.delete (its root and swap disk), in this
\* order and whatever the earlier ones gave, and returns the error of the
\* earliest one that failed, nil exactly when none failed.
C6_DiscardAll ==
    \A p \in Callers : Returned(p, "Discard") =>
        LET q == proc[p]
            c == q.calls
            failed == { i \in 1..3 : q.errs[i] # nil }
        IN  /\ Actions(c) =
                  <<"linode.shutdown", "linode.config.delete", "linode.disk.delete">>
            /\ \A i \in 1..3 : c[i].id = q.server.ID
            /\ c[2].args = <<q.server.Config>>
            /\ c[3].args = <<q.server.Root, q.server.Swap>>
            /\ Len(q.errs) = 3
            /\ \A i \in 1..3 : c[i].ok <=> q.errs[i] = nil
            /\ (q.err = nil) <=> (failed = {})
            /\ \A i \in failed : (\A j \in failed : i <= j) => q.err = q.errs[i]

\* Discard returned after its shutdown and its configuration removal failed
\* with different errors.
C6_Witness ==
    \E p \in Callers :
        /\ Returned(p, "Discard")
        /\ proc[p].errs[1] # nil
        /\ proc[p].errs[2] # nil
        /\ proc[p].errs[1] # proc[p].errs[2]

\* The step of goroutine p is the timeout case of the wait: it leaves the
\* select loop without a finished job.
DeadlineStep(p) ==
    /\ proc[p].pc = "waitJob"
    /\ proc'[p].pc # "waitJob"
    /\ proc'[p].job = proc[p].job

DeadlineSteps(p) ==
    LET q == proc[p]
        r == proc'[p]
    IN  /\ DeadlineStep(p) =>
            /\ q.now + 1 >= Deadline
            /\ IF q.infoErr = nil
               THEN /\ r.pc = "waitRemoveDisks"
                    /\ Len(r.calls) = Len(q.calls) + 1
                    /\ SubSeq(r.calls, 1, Len(q.calls)) = q.calls
                    /\ r.calls[Len(r.calls)].action = "linode.config.delete"
                    /\ r.calls[Len(r.calls)].id = q.server.ID
                    /\ r.calls[Len(r.calls)].args = <<q.server.Config>>
               ELSE /\ r.pc = "setupRemoveConfig"
                    /\ r.err = q.infoErr
                    /\ r.err # ErrTimeout
                    /\ r.calls = q.calls
        /\ (q.pc = "waitRemoveDisks" /\ r # q) =>
            /\ r.pc = "setupRemoveConfig"
            /\ r.err = ErrTimeout
            /\ Len(r.calls) = Len(q.calls) + 1
            /\ SubSeq(r.calls, 1, Len(q.calls)) = q.calls
            /\ r.calls[Len(r.calls)].action = "linode.disk.delete"
            /\ r.calls[Len(r.calls)].id = q.server.ID
            /\ r.calls[Len(r.calls)].args = <<q.server.Root, q.server.Swap>>

NeverShutdown ==
    \A p \in Callers : proc[p].op = "Allocate" =>
        \A i \in 1..Len(proc[p].calls) : proc[p].calls[i].action # "linode.shutdown"

\* C7: when the wait ends at its deadline and no poll failed, the wait
\* requests the removal of the configuration and then of the root and swap
\* disks, whatever the removals give, and returns the timeout error; when a
\* poll failed, it returns the polling error it holds and requests nothing;
\* and Allocate never requests linode.shutdown.
C7_Deadline == []NeverShutdown /\ [][\A p \in Callers : DeadlineSteps(p)]_vars

\* The wait returned the timeout error to setup after both its removals
\* failed.
C7_Witness ==
    \E p \in Callers :
        /\ proc[p].pc = "setupRemoveConfig"
        /\ proc[p].err = ErrTimeout
        /\ RemovalsFailed(proc[p].calls)

\* The step of goroutine p is a poll that saw the job finished.
TerminalPoll(p) ==
    /\ proc[p].pc = "waitJob"
    /\ proc'[p].pc # "waitJob"
    /\ proc'[p].job # proc[p].job

PollSteps(p) ==
    LET q == proc[p]
        r == proc'[p]
    IN  /\ (q.pc = "waitJob" /\ r.polls > q.polls) =>
            /\ r.pc = "waitJob"
            /\ r.polls = q.polls + 1
            /\ r.calls = q.calls
            /\ r.job.HostFinish = ""
            /\ r.infoErr # q.infoErr => r.infoErr # nil
        /\ TerminalPoll(p) =>
            /\ r.job.HostFinish # ""
            /\ r.job.JobID = q.jobID
            /\ r.calls = q.calls
            /\ IF r.job.HostSuccess = 1
               THEN r.pc = "done" /\ r.err = nil
               ELSE /\ r.pc = "setupRemoveConfig"
                    /\ r.err = <<"cannot boot">> \o
                          (IF r.job.HostMessage # <<>>
                           THEN <<ToLower(Head(r.job.HostMessage))>>
                                   \o Tail(r.job.HostMessage)
                           ELSE <<"job failed silently">>)
        /\ (q.op = "Allocate" /\ q.job.HostFinish # "") =>
            /\ r.job = q.job
            /\ r.polls = 0
            /\ r.pc \in {"setupRemoveConfig", "setupRemoveDisks", "done"}

Polling ==
    \A p \in Callers : proc[p].pc = "waitJob" =>
        /\ proc[p].job.HostFinish = ""
        /\ proc[p].job \in {NoJob} \cup JobInfos(proc[p].jobID)

\* C8: a poll whose fetch fails or whose job has no finish time leaves the
\* wait polling; the first poll that shows a finish time ends it: with
\* success exactly when the job's success flag is set, otherwise with an
\* error made of the job's message, its first letter in lower case, or of
\* "job failed silently" when the message is empty; the wait polls no more
\* and requests no removal after that poll.
C8_Polls == []Polling /\ [][\A p \in Callers : PollSteps(p)]_vars

\* The wait ended on a job that finished without success and without a
\* message, after an earlier poll had failed.
C8_Witness ==
    \E p \in Callers :
        /\ proc[p].pc = "setupRemoveConfig"
        /\ proc[p].job.HostFinish # ""
        /\ proc[p].job.HostSuccess = 0
        /\ proc[p].err = <<"cannot boot", "job failed silently">>

-----------------------------------------------------------------------------
(* Properties of the catalog cache, checked under SpecCatalog *)

\* What a step does once distrosDone is set.
PopulatedOnce ==
    distrosDone =>
        /\ distrosDone'
        /\ distrosCache' = distrosCache
        /\ kernelsCache' = kernelsCache
        /\ \A p \in Resolvers :
            /\ proc'[p].pc \notin {"cacheDistros", "cacheKernels"}
            /\ proc'[p].fetches # proc[p].fetches =>
                  (proc[p].pc = "distro" /\ proc'[p].fetches = <<>>)

\* C9: once a population of the catalog is complete and distrosDone is set,
\* no distro() call of any goroutine requests avail.distributions or
\* avail.kernels or changes distrosCache or kernelsCache, and the flag stays
\* set.
C9_PopulatedOnce == [][PopulatedOnce]_vars

\* A goroutine is inside distro() after another one completed the population:
\* it made no request of its own.
C9_Witness ==
    /\ distrosDone
    /\ \E p \in Resolvers :
        /\ proc[p].pc = "distroLookup"
        /\ proc[p].fetches = <<>>
        /\ \E o \in Resolvers \ {p} :
            /\ proc[o].pc = "done"
            /\ Len(proc[o].fetches) >= 2

InDistro == { p \in Resolvers :
                proc[p].pc \in {"cacheDistros", "cacheKernels", "distroLookup"} }

\* The entry is filled from both lists the provider holds.
BackFilled(entry) ==
    /\ entry.Name # NoName
    /\ \E i \in 1..Len(provDistros) :
        /\ provDistros[i].ID = entry.ID
        /\ provDistros[i].Label = entry.Label
        /\ provDistros[i].Is64Bit = entry.Is64Bit
    /\ \E k \in 1..Len(provKernels) :
        /\ provKernels[k].ID = entry.KernelID
        /\ HasPrefix(provKernels[k].Label,
                     <<"Latest", IF entry.Is64Bit = 1 THEN "64" ELSE "32", "bit">>)

\* C10: at most one goroutine is populating or reading the cache at any
\* time and it is the one that holds distrosLock, so none looks the cache up
\* while another populates it; and every entry distro() returns has its Name
\* and its KernelID, filled in after both lists were fetched.
C10_Exclusive ==
    /\ Cardinality(InDistro) <= 1
    /\ \A p \in InDistro : distrosLock = p
    /\ distrosLock # 0 => distrosLock \in InDistro
    /\ \A p \in Resolvers :
        /\ proc[p].pc = "distroLookup" =>
              \A i \in 1..Len(distrosCache) : BackFilled(distrosCache[i])
        /\ (proc[p].pc = "done" /\ proc[p].err = nil) =>
              /\ BackFilled(proc[p].distro)
              /\ proc[p].distro.Name = proc[p].image
              /\ distrosCache # <<>>
              /\ kernelsCache = provKernels

\* A goroutine waits for the lock while another one, which fetched the
\* distributions and not yet the kernels, holds it.
C10_Witness ==
    \E p \in Resolvers, o \in Resolvers :
        /\ p # o
        /\ proc[p].pc = "cacheKernels"
        /\ distrosCache # <<>>
        /\ distrosCache[1].Name = NoName
        /\ proc[o].pc = "distro"

-----------------------------------------------------------------------------
(* Properties of the batch calls, checked under Spec *)

\* Every sub-request of a batch of n has its result and none reports an error.
Complete(results, n) ==
    /\ Len(results) = n
    /\ \A j \in 1..Len(results) : results[j] = <<>>

\* C11: a batch call is taken as a success only if it returned a result for
\* every sub-request and none of the results reports an error: createDisk
\* for its two creations, removeDisks for the disks it was given, whatever
\* the length of the result sequence.
C11_BatchComplete ==
    \A p \in Callers :
        LET q == proc[p]
            c == q.calls
            n == Len(c)
        IN  /\ \A i \in 1..n :
                (c[i].action = "linode.disk.create" /\ c[i].ok) =>
                    Complete(q.results, 2)
            /\ (n > 0 /\ c[n].action = "linode.disk.delete" /\ c[n].ok) =>
                    /\ q.removal.doErr = nil
                    /\ Complete(q.removal.results, Len(c[n].args))

-----------------------------------------------------------------------------
(* Properties of distro(), checked under SpecResolve and SpecCatalog *)

\* The positions of the distributions the provider lists under the name.
Matching(system) ==
    { i \in 1..Len(provDistros) : distroName(provDistros[i].Label) = system }

\* The kernel ID is the one of the provider's last kernel with the prefix.
IsLatest(kernelID, bits) ==
    \E k \in 1..Len(provKernels) :
        /\ provKernels[k].ID = kernelID
        /\ HasPrefix(provKernels[k].Label, <<"Latest", bits, "bit">>)
        /\ \A j \in (k + 1)..Len(provKernels) :
              ~HasPrefix(provKernels[j].Label, <<"Latest", bits, "bit">>)

HasLatest(bits) == \E id \in { provKernels[k].ID : k \in 1..Len(provKernels) } :
                        IsLatest(id, bits)

\* The distro() call of goroutine p returned after it fetched both lists.
Resolved(p) ==
    /\ proc[p].op = "distro"
    /\ proc[p].pc = "done"
    /\ \E i \in 1..Len(proc[p].fetches) :
        /\ proc[p].fetches[i].action = "avail.kernels"
        /\ proc[p].fetches[i].ok

\* C12: whatever lists were fetched, distro() returns the reference result:
\* the population fails with "cannot find latest Linode kernel" when no
\* kernel label starts with "Latest 64 bit" or none with "Latest 32 bit";
\* otherwise, among the distributions whose name is the requested system,
\* the first 64-bit one, else the last one, else the error "cannot find
\* system"; the entry carries the ID of the latest kernel of its width.
C12_Reference ==
    \A p \in Callers : Resolved(p) =>
        LET q == proc[p]
            match == Matching(q.image)
            match64 == { i \in match : provDistros[i].Is64Bit = 1 }
        IN  IF ~HasLatest("64") \/ ~HasLatest("32")
            THEN /\ q.err = <<"cannot find latest Linode kernel">>
                 /\ q.distro = NoDistro
                 /\ ~distrosDone
            ELSE IF match = {}
            THEN /\ q.err = ErrNoSystem
                 /\ q.distro = NoDistro
            ELSE \E i \in match :
                 /\ IF match64 # {}
                    THEN i \in match64 /\ \A j \in match64 : i <= j
                    ELSE \A j \in match : j <= i
                 /\ q.err = nil
                 /\ q.distro.ID = provDistros[i].ID
                 /\ q.distro.Label = provDistros[i].Label
                 /\ q.distro.Is64Bit = provDistros[i].Is64Bit
                 /\ q.distro.Name = q.image
                 /\ IsLatest(q.distro.KernelID,
                             IF q.distro.Is64Bit = 1 THEN "64" ELSE "32")

\* distro() returned the last of two 32-bit distributions of the name.
C12_Witness ==
    \E p \in Callers :
        /\ Resolved(p)
        /\ proc[p].err = nil
        /\ Len(provDistros) = 2
        /\ Matching(proc[p].image) = {1, 2}
        /\ provDistros[1] # provDistros[2]
        /\ proc[p].distro.ID = provDistros[2].ID
        /\ proc[p].distro.Is64Bit = 0

-----------------------------------------------------------------------------
(* Properties of ReuseData and Reuse, checked under SpecReuse *)

\* C13: Reuse(ReuseData(machine)) succeeds and gives a machine with the ID,
\* label, address, image, configuration ID and root and swap disk IDs of the
\* original, and with Status 0 whatever the status of the original.
C13_RoundTrip ==
    \A p \in Callers : Returned(p, "Reuse") =>
        LET s == proc[p].server
            r == proc[p].reused
        IN  /\ proc[p].err = nil
            /\ r.ID = s.ID
            /\ r.Label = s.Label
            /\ r.Addr = s.Addr
            /\ r.Img = s.Img
            /\ r.Config = s.Config
            /\ r.Root = s.Root
            /\ r.Swap = s.Swap
            /\ r.Status = 0
            /\ \A i \in 1..Len(proc[p].data) : proc[p].data[i].key # "status"

\* A running machine whose label reads as a number went through ReuseData
\* and Reuse.
C13_Witness ==
    \E p \in Callers :
        /\ Returned(p, "Reuse")
        /\ proc[p].server.Status = linodeRunning
        /\ proc[p].server.Label = "12"
        /\ proc[p].reused.Label = "12"
        /\ proc[p].reused.Status = 0

-----------------------------------------------------------------------------
(* Properties of the errors of the disk batch, checked under Spec *)

\* The error ends with the given one: it wraps it.
Carries(err, inner) ==
    /\ Len(err) >= Len(inner)
    /\ SubSeq(err, Len(err) - Len(inner) + 1, Len(err)) = inner

\* C14: when the batch call of createDisk fails in l.do with no result
\* decoded (the request, the read of the response or its decoding failed),
\* the error Allocate returns carries that failure, and the batch is
\* requested once.
C14_TransportSurfaced ==
    \A p \in Callers :
        LET q == proc[p]
        IN  (Returned(p, "Allocate") /\ q.batchErr # nil /\ q.results = <<>>) =>
                /\ q.err # nil
                /\ Carries(q.err, q.batchErr)
                /\ Cardinality({ i \in 1..Len(q.calls) :
                        q.calls[i].action = "linode.disk.create" }) = 1

-----------------------------------------------------------------------------
(* Properties of cacheDistros, checked under SpecResolve and SpecCatalog *)

\* The positions of the requests of one list among the fetches of a call.
FetchesOf(q, action) == { i \in 1..Len(q.fetches) : q.fetches[i].action = action }

\* C15: one population requests each list at most three times and no more
\* after the first success, requests the kernels only after a successful
\* request of the distributions, and after three failed requests of a list
\* returns the error of the third one behind "cannot list Linode
\* distributions" or "cannot list Linode kernels".
C15_Attempts ==
    \A p \in Callers :
        LET q == proc[p]
            D == FetchesOf(q, "avail.distributions")
            K == FetchesOf(q, "avail.kernels")
            failed(S) == Cardinality(S) = 3 /\ \A i \in S : ~q.fetches[i].ok
        IN  /\ D \cup K = 1..Len(q.fetches)
            /\ Cardinality(D) <= 3
            /\ Cardinality(K) <= 3
            /\ \A i \in D, j \in D : (q.fetches[i].ok /\ i # j) => j < i
            /\ \A i \in K, j \in K : (q.fetches[i].ok /\ i # j) => j < i
            /\ \A i \in D, j \in K : i < j
            /\ K # {} => \E i \in D : q.fetches[i].ok
            /\ (q.pc = "done" /\ failed(D)) =>
                  /\ K = {}
                  /\ q.fetchErr # nil
                  /\ q.err = <<"cannot list Linode distributions">> \o q.fetchErr
            /\ (q.pc = "done" /\ failed(K)) =>
                  /\ q.fetchErr # nil
                  /\ q.err = <<"cannot list Linode kernels">> \o q.fetchErr
            /\ (q.pc = "done" /\ ~failed(D) /\ ~failed(K)) =>
                  \E i \in K : q.fetches[i].ok

\* distro() returned after three failed requests of the kernels that came
\* after two failed and one successful request of the distributions.
C15_Witness ==
    \E p \in Callers :
        /\ proc[p].pc = "done"
        /\ Len(proc[p].fetches) = 6
        /\ ~proc[p].fetches[6].ok
        /\ proc[p].fetchErr = <<"b", "a", "d">>

\* The call of goroutine p fetched both lists itself.
Populated(q) ==
    /\ \E i \in FetchesOf(q, "avail.distributions") : q.fetches[i].ok
    /\ \E i \in FetchesOf(q, "avail.kernels") : q.fetches[i].ok

\* What the steps of a distro() call do around a failed population.
FailedPopulation(p) ==
    LET q == proc[p]
        r == proc'[p]
    IN  /\ (q.pc \in {"cacheDistros", "cacheKernels"} /\ r.pc = "done") =>
            /\ r.err # nil
            /\ r.distro = NoDistro
            /\ ~distrosDone'
            /\ distrosLock' = 0
        /\ (q.pc = "distro" /\ r.pc # "distro" /\ ~distrosDone) =>
            /\ r.pc = "cacheDistros"
            /\ r.fetches = <<>>
            /\ r.retry = 0

NothingFromFailed ==
    \A p \in Resolvers :
        LET q == proc[p]
        IN  /\ q.pc = "distroLookup" => (distrosDone \/ Populated(q))
            /\ (q.pc = "done" /\ q.err = nil) =>
                  /\ distrosDone
                  /\ q.distro.Name = q.image
                  /\ q.distro.KernelID \in
                        { provKernels[k].ID : k \in 1..Len(provKernels) }
            /\ (q.pc = "done" /\ q.fetches # <<>> /\ ~Populated(q)) =>
                  /\ q.err # nil
                  /\ q.distro = NoDistro
            /\ ~distrosDone =>
                  (q.pc = "done" => q.err # nil)

\* C16: a failed population is not remembered: the distro() call returns
\* its error and no entry, leaves distrosDone unset and releases
\* distrosLock; the next call starts the population again from the
\* distributions; and no call looks up or returns an entry unless a
\* population succeeded.
C16_NotRemembered ==
    []NothingFromFailed /\ [][\A p \in Resolvers : FailedPopulation(p)]_vars

\* One call failed after it fetched the distributions and not the kernels,
\* and a later one populated the cache and returned an entry.
C16_Witness ==
    \E p \in Resolvers, o \in Resolvers :
        /\ proc[p].pc = "done"
        /\ proc[p].err = <<"cannot list Linode kernels", "b", "a", "d">>
        /\ proc[o].pc = "done"
        /\ proc[o].err = nil
        /\ Populated(proc[o])
        /\ proc[o].distro.Name = proc[o].image

-----------------------------------------------------------------------------
(* Properties of the wait and of the rollback as a whole, checked under Spec *)

\* C17 (the bound on the polls): a wait polls at most as many times as the
\* polling interval goes into the deadline, twelve times.
C17_PollBound ==
    \A p \in Callers : proc[p].polls <= waitTimeout \div retryInterval

-----------------------------------------------------------------------------
(* Two goroutines running Allocate on one linode value *)

Pair == {1, 2}

\* An account with two powered-off machines and a catalog that has the
\* image; both goroutines ask for the same image.  The provider fails none
\* of their requests and answers every poll within an interval, so that
\* DiskRollback and ConfigRollback have no part; a job may still fail or stay
\* unfinished until the deadline.
InitPair ==
    /\ servers = <<Server(11, linodePoweredOff), Server(12, linodePoweredOff)>>
    /\ ipList = <<IP(1, "1.2.3.4")>>
    /\ provDistros = <<Ubuntu32, Ubuntu64>>
    /\ provKernels = <<Latest32, Latest64>>
    /\ disks = {}
    /\ configs = {}
    /\ nextID = 1
    /\ distrosLock = 0
    /\ distrosDone = FALSE
    /\ distrosCache = <<>>
    /\ kernelsCache = <<>>
    /\ proc = [p \in Pair |-> Start("Allocate", Ubuntu, NoServer, "Allocate")]

\* The requests a goroutine has taken as failed so far: those of its log, those
\* of its latest distro() call, and the polls of its current wait.
Faults(p) ==
    Cardinality({ i \in 1..Len(proc[p].calls) : ~proc[p].calls[i].ok })
    + Cardinality({ i \in 1..Len(proc[p].fetches) : ~proc[p].fetches[i].ok })
    + (IF proc[p].infoErr # nil THEN 1 ELSE 0)

\* The provider has failed no request of the two goroutines.
NoFaults == \A p \in Pair : Faults(p) = 0

\* No tick is waiting after a poll: the poll took less than an interval.
Prompt(p) == ~proc[p].tick

NextPair ==
    \/ \E p \in Pair : Allocate(p) /\ NoFaults'
    \/ \E p \in Pair : SetupIP(p) /\ NoFaults'
    \/ \E p \in Pair : DistroEnter(p) /\ NoFaults'
    \/ \E p \in Pair : FetchDistros(p) /\ NoFaults'
    \/ \E p \in Pair : FetchKernels(p) /\ NoFaults'
    \/ \E p \in Pair : DistroLookup(p) /\ NoFaults'
    \/ \E p \in Pair : CreateDisk(p) /\ NoFaults'
    \/ \E p \in Pair : CreateConfig(p) /\ NoFaults'
    \/ \E p \in Pair : Boot(p) /\ NoFaults'
    \/ \E p \in Pair : WaitPoll(p) /\ NoFaults' /\ Prompt(p)'
    \/ \E p \in Pair : WaitTimeout(p) /\ NoFaults'
    \/ \E p \in Pair : WaitRemoveDisks(p) /\ NoFaults'
    \/ \E p \in Pair : SetupRemoveConfig(p) /\ NoFaults'
    \/ \E p \in Pair : SetupRemoveDisks(p) /\ NoFaults'

SpecPair == InitPair /\ [][NextPair]_vars

\* The machines a goroutine has issued disk, configuration or boot calls for.
Provisioning(p) ==
    { proc[p].calls[i].id : i \in
        { j \in 1..Len(proc[p].calls) : proc[p].calls[j].action \in
            {"linode.disk.create", "linode.config.create", "linode.reboot"} } }

\* C18: two concurrent Allocate calls never provision the same machine: the
\* machines they issue disk, configuration and boot calls for are disjoint,
\* and two successful calls return different machine IDs.
C18_Disjoint ==
    \A p, q \in Pair : p # q =>
        /\ Provisioning(p) \cap Provisioning(q) = {}
        /\ (Returned(p, "Allocate") /\ Returned(q, "Allocate")
            /\ proc[p].err = nil /\ proc[q].err = nil)
           => proc[p].server.ID # proc[q].server.ID

\* The second half of C18 alone: two successful calls return different
\* machine IDs.
C18_DistinctHandles ==
    \A p, q \in Pair :
        (p # q /\ Returned(p, "Allocate") /\ Returned(q, "Allocate")
         /\ proc[p].err = nil /\ proc[q].err = nil)
        => proc[p].server.ID # proc[q].server.ID

-----------------------------------------------------------------------------
(* Leftovers and repeated removals, checked under Spec *)

\* The removal calls of a log.
Removals(calls) ==
    { i \in 1..Len(calls) :
        calls[i].action \in {"linode.disk.delete", "linode.config.delete"} }

\* C19: when Allocate returns an error and every removal call it issued
\* succeeded, no disk and no configuration the provider created for it is
\* left (the account had none before the call).
C19_NoOrphans ==
    \A p \in Callers :
        (/\ Returned(p, "Allocate")
         /\ proc[p].err # nil
         /\ \A i \in Removals(proc[p].calls) : proc[p].calls[i].ok)
        => disks = {} /\ configs = {}

\* How many calls of the given API action a log holds.
Issued(calls, action) ==
    Cardinality({ i \in 1..Len(calls) : calls[i].action = action })

\* C20: within one Allocate call the removal of the configuration is issued
\* at most once and the removal of the disks is issued at most once.
C20_RemovedOnce ==
    \A p \in Callers : proc[p].op = "Allocate" =>
        /\ Issued(proc[p].calls, "linode.config.delete") <= 1
        /\ Issued(proc[p].calls, "linode.disk.delete") <= 1

====
